---- MODULE Spec2Model ----
(***************************************************************************)
(* Better Life dashboard: the per-category score computations of the       *)
(* country grid (memberCountries.ts), the map (drawMap) and the ranking    *)
(* widget (drawIndexWidget), over one CSV dataset; the correlation matrix   *)
(* of the heatmap (heatmap.ts); the introduction carousel (main.js) with   *)
(* the loads its slides start, and the older carousel of main.ts; the      *)
(* region classifiers; the country selection shared through localStorage   *)
(* by grid, map and dashboard; the dashboard's bar chart, story dots and   *)
(* debounced resize listener (dashboard.js).                               *)
(*                                                                         *)
(* Numbers are exact rationals <<n, d>> with d > 0 in lowest terms; the    *)
(* source computes in IEEE doubles, so rounding is outside the model.      *)
(***************************************************************************)
EXTENDS Integers, Sequences, FiniteSets, TLC

VARIABLES
    csv,        \* the CSV file a view is about to load (<<>> once loaded)
    gridRows,   \* renderCountryGrid: rows after autoType, with _groupAvg
    scales,     \* renderCountryGrid: category -> domain of its 1-10 scale
    tooltip,    \* renderCountryGrid: the ratings shown for the hovered box
    mapData,    \* drawMap: typed records with groupAvg
    oecdAvg,    \* drawMap: category -> cross-country average
    countries,  \* drawIndexWidget: [Country, scores, composite], as sorted
    weight,     \* drawIndexWidget: category -> slider weight
    bars,       \* drawIndexWidget: the bars drawn, top to bottom
    heatCols,   \* drawHeatmap: the numeric columns, in header order
    matrix,     \* drawHeatmap: <<row, column>> -> correlation
    current,    \* carousel: index of the active slide
    pending,    \* carousel: view -> draw calls awaiting their data
    svgs,       \* carousel: view -> svg elements (box sets) in its container
    drawn,      \* carousel: view -> its drawing code has run on loaded data
    settled,    \* carousel: view -> how its last settled load ended
    nextDisabled, \* carousel: the Next button of the grid slide is disabled
    slideActive, \* carousel: the slide elements that have the class "active"
    dotClass,   \* carousel: progress dot -> its class ("active", "visited", "")
    regions,    \* regionOf: view -> row name -> the region it was given
    stored,     \* localStorage: the item "bli-selected-country"
    gridSelected, \* country grid: the box that has the class "selected"
    homeRec,    \* drawMap: the home country of its click handlers
    homeBox,    \* drawMap: the country #home-country-box shows
    selBox,     \* drawMap: the country #selected-country-box shows
    scatterPlotMasterCountry, \* dashboard: the country its charts highlight
    countrySelect, \* dashboard: the value of the country drop-down
    savedSlide, \* localStorage: the item "bli-current-slide"
    targetSlide, \* localStorage: the item "bli-target-slide"
    location,   \* the document the tab shows: "index.html" or "dashboard.html"
    barChart,   \* dashboard: the bar chart's controls and the bars it shows
    timeout,    \* debounce: steps of time until the pending timer fires
    sinceResize, \* steps of time since the last resize event
    burst,      \* resize events of the current burst
    renders     \* debounced re-renders since the current burst began

heatVars == <<heatCols, matrix>>
progressVars == <<slideActive, dotClass>>
slideVars == <<current, pending, svgs, drawn, settled, nextDisabled, progressVars>>
mapBoxVars == <<homeRec, homeBox, selBox>>
dashVars == <<scatterPlotMasterCountry, countrySelect>>
selectVars == <<stored, gridSelected, mapBoxVars, dashVars>>
storyVars == <<savedSlide, targetSlide, location>>
resizeVars == <<timeout, sinceResize, burst, renders>>
chartVars == <<barChart, resizeVars>>
pageVars == <<regions, selectVars, storyVars, chartVars>>

vars == <<csv, gridRows, scales, tooltip, mapData, oecdAvg, countries, weight, bars,
          heatVars, slideVars, pageVars>>

\* the views the carousel draws into its slides
Views == {"grid", "scatter", "map"}

\* no heatmap drawn
HeatBlank == heatCols = <<>> /\ matrix = <<>>

\* nothing classified by regionOf
RegionsBlank == regions = [view \in {"scatter", "dashboard"} |-> <<>>]

\* localStorage.getItem of an absent item, and a null country
NoCountry == "null"

\* an element that is not in the page
NoBox == "(no element)"

\* no map and no dashboard in the page, no grid box selected
WidgetsBlank ==
    /\ gridSelected = NoCountry
    /\ homeRec = NoCountry
    /\ homeBox = NoBox
    /\ selBox = NoBox
    /\ scatterPlotMasterCountry = NoCountry
    /\ countrySelect = NoBox

\* nothing stored and no widget
SelectBlank == stored = NoCountry /\ WidgetsBlank

\* localStorage.getItem of an absent item
NoItem == "null"

\* no slide index stored, the tab on the story
StoryBlank ==
    /\ savedSlide = NoItem
    /\ targetSlide = NoItem
    /\ location = "index.html"

\* the first option of #num-select, a property no file has, no bars
NoChart ==
    [prop |-> <<0, "">>, numVal |-> "Top 10", continentMode |-> FALSE,
     entries |-> <<>>]

\* no timer pending, no resize event yet
NoTimer == -1
NoResize == -1

\* the dashboard's bar chart not rendered, its window never resized
ChartBlank ==
    /\ barChart = NoChart
    /\ timeout = NoTimer
    /\ sinceResize = NoResize
    /\ burst = 0
    /\ renders = 0

\* the state of the parts that the other specifications leave alone
PagesBlank == RegionsBlank /\ SelectBlank /\ StoryBlank /\ ChartBlank

\* slides.length
NumSlides == 6

\* updateProgress(currentIndex): the class of every progress dot
UpdateProgressKeepsActive(currentIndex) ==  \* faulty variant: the dots passed stay active
    [i \in 0..(NumSlides - 1) |->
        IF i <= currentIndex THEN "active" ELSE ""]

UpdateProgress(currentIndex) ==
    [i \in 0..(NumSlides - 1) |->
        IF i < currentIndex THEN "visited"
        ELSE IF i = currentIndex THEN "active"
        ELSE ""]

\* the carousel on its first slide with nothing drawn
SlidesBlank ==
    /\ slideActive = {0}
    /\ dotClass = UpdateProgress(0)
    /\ current = 0
    /\ pending = [v \in Views |-> 0]
    /\ svgs = [v \in Views |-> 0]
    /\ drawn = [v \in Views |-> FALSE]
    /\ settled = [v \in Views |-> "none"]
    /\ nextDisabled = FALSE

----------------------------------------------------------------------------
(* Bounds of the model *)

MaxVal == 1             \* numeric cells are 0..MaxVal
MaxWeight == 2          \* slider positions are 0..MaxWeight

----------------------------------------------------------------------------
(* Exact rational arithmetic *)

Abs(x) == IF x < 0 THEN -x ELSE x

RECURSIVE GCD(_, _)
GCD(a, b) == IF b = 0 THEN a ELSE GCD(b, a % b)

Rat(n, d) ==
    LET s == IF d < 0 THEN -1 ELSE 1
        g == GCD(Abs(n), Abs(d))
    IN  <<(s * n) \div g, (s * d) \div g>>

Int2Rat(n) == <<n, 1>>
RAdd(a, b) == Rat(a[1] * b[2] + b[1] * a[2], a[2] * b[2])
RSub(a, b) == Rat(a[1] * b[2] - b[1] * a[2], a[2] * b[2])
RMul(a, b) == Rat(a[1] * b[1], a[2] * b[2])
RDiv(a, b) == Rat(a[1] * b[2], a[2] * b[1])
RLt(a, b) == a[1] * b[2] < b[1] * a[2]
RLe(a, b) == a[1] * b[2] <= b[1] * a[2]
RMin(a, b) == IF RLt(b, a) THEN b ELSE a
RMax(a, b) == IF RLt(a, b) THEN b ELSE a

----------------------------------------------------------------------------
(* JavaScript values: undefined, null, NaN and finite numbers *)

Undefined == [k |-> "undefined", q |-> <<0, 1>>]
Null      == [k |-> "null",      q |-> <<0, 1>>]
NaN       == [k |-> "NaN",       q |-> <<0, 1>>]
Num(q)    == [k |-> "number",    q |-> q]

IsNullish(v) == v.k \in {"undefined", "null"}    \* v == null

\* Number(v) of a value that is not a string
ToNumber(v) ==
    CASE v.k = "undefined" -> NaN
      [] v.k = "null"      -> Num(<<0, 1>>)
      [] OTHER             -> v

\* isNaN(v): Number(v) is NaN
IsNaN(v) == ToNumber(v).k = "NaN"

\* v || 0 for a number or undefined
OrZero(v) == IF v.k = "number" /\ v.q[1] # 0 THEN v ELSE Num(<<0, 1>>)

----------------------------------------------------------------------------
(* The CSV text.  A cell is the empty string <<>> or a numeral <<n>>. *)

EmptyCell == <<>>
Numeral(n) == <<n>>
CellTexts == {EmptyCell} \cup {Numeral(n) : n \in 0..MaxVal}

\* +s for a cell string s: the empty string is 0
StringToNumber(s) == IF s = EmptyCell THEN Num(<<0, 1>>) ELSE Num(Int2Rat(s[1]))

\* d3.autoType on a cell string: the empty string is null
AutoType(s) == IF s = EmptyCell THEN Null ELSE Num(Int2Rat(s[1]))

\* row[c]: undefined when the row has no such key
Prop(obj, c) == IF c \in DOMAIN obj THEN obj[c] ELSE Undefined

----------------------------------------------------------------------------
(* Category definitions, restricted to two of the eleven categories: one   *)
(* with two member indicators and the default category of the ranking.     *)

GroupNames == <<"Environment", "Life Satisfaction">>     \* Object.keys(GROUPS)

GROUPS ==
    [g \in {"Environment", "Life Satisfaction"} |->
        IF g = "Environment" THEN <<"Air pollution", "Water quality">>
                             ELSE <<"Life satisfaction">>]

Groups == DOMAIN GROUPS

\* A header is <<number of leading spaces, name>>; String.trim drops the spaces
Key(name) == <<0, name>>
Trim(h) == <<0, h[2]>>

Columns == <<"Air pollution", "Water quality", "Life satisfaction">>
\* the rows of the CSV, in file order
CountryNames == <<"Austria", "Belgium", "Canada">>
NumCountries == Len(CountryNames)

Range(s) == {s[i] : i \in DOMAIN s}

RECURSIVE SumSeq(_)
SumSeq(s) == IF s = <<>> THEN <<0, 1>> ELSE RAdd(s[1], SumSeq(Tail(s)))

NoFile == <<>>

\* The cell texts of a file: row -> column -> text
CellTables == [1..NumCountries -> [DOMAIN Columns -> CellTexts]]

\* The CSV file with trimmed headers and the given cells; the files
\* considered are DatasetOf(cells) for every cells of CellTables
DatasetOf(cells) ==
    [header |-> [j \in DOMAIN Columns |-> Key(Columns[j])],
     rows   |-> [i \in 1..NumCountries |->
                   [Country |-> CountryNames[i], cells |-> cells[i]]]]

\* d3.csv(url): one object per row, keyed by the header as written, the
\* values the cell strings
ParseCsv(file) ==
    [i \in DOMAIN file.rows |->
        [Country |-> file.rows[i].Country,
         cols    |-> [h \in Range(file.header) |->
                        file.rows[i].cells[
                            CHOOSE j \in DOMAIN file.header : file.header[j] = h]]]]

\* d3.csv(url, d3.autoType): every value of every row converted
ParseCsvAutoType(file) ==
    LET rows == ParseCsv(file)
    IN  [i \in DOMAIN rows |->
            [Country |-> rows[i].Country,
             cols    |-> [h \in DOMAIN rows[i].cols |-> AutoType(rows[i].cols[h])]]]

----------------------------------------------------------------------------
(* d3-array and d3-scale, as the views call them *)

IsValidNumber(v) == ~IsNullish(v) /\ ~IsNaN(v)

\* d3.mean: the mean of the values that are neither nullish nor NaN
D3Mean(vals) ==
    LET ok == SelectSeq(vals, IsValidNumber)
    IN  IF Len(ok) = 0 THEN Undefined
        ELSE Num(RDiv(SumSeq([i \in DOMAIN ok |-> ToNumber(ok[i]).q]),
                      Int2Rat(Len(ok))))

\* d3.sum of plain numbers
D3Sum(nums) == SumSeq(nums)

RECURSIVE FoldMin(_)
FoldMin(s) == IF Len(s) = 1 THEN s[1] ELSE RMin(s[1], FoldMin(Tail(s)))
RECURSIVE FoldMax(_)
FoldMax(s) == IF Len(s) = 1 THEN s[1] ELSE RMax(s[1], FoldMax(Tail(s)))

\* d3.extent: [min, max] of the valid values, [undefined, undefined] if none
D3Extent(vals) ==
    LET ok == SelectSeq(vals, IsValidNumber)
        qs == [i \in DOMAIN ok |-> ToNumber(ok[i]).q]
    IN  IF Len(ok) = 0 THEN <<Undefined, Undefined>>
        ELSE <<Num(FoldMin(qs)), Num(FoldMax(qs))>>

\* faulty variant: a degenerate domain normalizes to 0 instead of 1/2
ScaleLinearDegenerateLow(dom, r0, r1, x) ==
    LET a  == dom[1].q
        b  == dom[2].q
        xc == RMax(a, RMin(b, x))
        t  == IF a = b THEN <<0, 1>> ELSE RDiv(RSub(xc, a), RSub(b, a))
    IN  RAdd(RMul(Int2Rat(r0), RSub(<<1, 1>>, t)), RMul(Int2Rat(r1), t))

\* d3.scaleLinear().domain(dom).range([r0, r1]).clamp(true) applied to x:
\* clamp x to the domain, normalize ((x - a) / (b - a), or 1/2 when b = a),
\* interpolate r0 * (1 - t) + r1 * t
ScaleLinear(dom, r0, r1, x) ==
    LET a  == dom[1].q
        b  == dom[2].q
        xc == RMax(a, RMin(b, x))
        t  == IF a = b THEN <<1, 2>> ELSE RDiv(RSub(xc, a), RSub(b, a))
    IN  RAdd(RMul(Int2Rat(r0), RSub(<<1, 1>>, t)), RMul(Int2Rat(r1), t))

----------------------------------------------------------------------------
(* renderCountryGrid (memberCountries.ts) *)

\* step 2: every key of the row is replaced by its trimmed form
TrimKeys(cols) ==
    [h \in {Trim(k) : k \in DOMAIN cols} |->
        IF \E k \in DOMAIN cols : k # h /\ Trim(k) = h
        THEN cols[CHOOSE k \in DOMAIN cols : k # h /\ Trim(k) = h]
        ELSE cols[h]]

\* step 3: the mean of the category's indicators that are present, else null
GridGroupAvg(cols, cat) ==
    LET vals == SelectSeq([i \in DOMAIN GROUPS[cat] |-> Prop(cols, Key(GROUPS[cat][i]))],
                          IsValidNumber)
    IN  IF Len(vals) # 0 THEN D3Mean(vals) ELSE Null

\* the rows as the handlers read them afterwards: Country, the raw
\* "Life satisfaction" of the tooltip header, and _groupAvg
GridRows(file) ==
    LET raw == ParseCsvAutoType(file)
    IN  [i \in DOMAIN raw |->
            LET cols == TrimKeys(raw[i].cols)
            IN  [Country   |-> raw[i].Country,
                 lsRaw     |-> Prop(cols, Key("Life satisfaction")),
                 _groupAvg |-> [cat \in Groups |-> GridGroupAvg(cols, cat)]]]

\* step 4: the domain of the category's scale, the extent of the non-null means
GridScaleDomain(rows, cat) ==
    LET all == SelectSeq([i \in DOMAIN rows |-> rows[i]._groupAvg[cat]],
                         LAMBDA v : ~IsNullish(v))
    IN  D3Extent(all)

\* the range of every category's scale
RatingLo == 1
RatingHi == 10

\* faulty variant: the scale built on a 0-10 range
GridRatingFromZero(dom, avg) == ScaleLinear(dom, 0, RatingHi, avg.q)

\* faulty variant: the scale built on the reversed range
GridRatingReversed(dom, avg) == ScaleLinear(dom, RatingHi, RatingLo, avg.q)

GridRating(dom, avg) == ScaleLinear(dom, RatingLo, RatingHi, avg.q)

\* renderRadarChart (dashboard.js): normalizeScale(x), a 0-10 scale without
\* clamping whose domain is [lo - 1, hi + 1] when lo === hi
RadarLo == 0
RadarHi == 10
RadarNormalizeScale(lo, hi, x) ==
    LET a == IF lo = hi THEN RSub(lo, <<1, 1>>) ELSE lo
        b == IF lo = hi THEN RAdd(hi, <<1, 1>>) ELSE hi
        t == RDiv(RSub(x, a), RSub(b, a))
    IN  RAdd(RMul(Int2Rat(RadarLo), RSub(<<1, 1>>, t)), RMul(Int2Rat(RadarHi), t))

NoTooltip == [Country |-> "", lsRaw |-> Undefined, ratings |-> [cat \in {} |-> <<0, 1>>]]

\* the mouseover handler: one rating line per category whose mean is not null
GridTooltip(d, sc) ==
    [Country |-> d.Country,
     lsRaw   |-> d.lsRaw,
     ratings |-> [cat \in {c \in Groups : ~IsNullish(d._groupAvg[c])} |->
                    GridRating(sc[cat], d._groupAvg[cat])]]

RenderCountryGrid ==
    /\ csv # NoFile
    /\ gridRows = <<>>
    /\ gridRows' = GridRows(csv)
    /\ scales' = [cat \in Groups |-> GridScaleDomain(gridRows', cat)]
    /\ UNCHANGED <<pageVars, csv, tooltip, mapData, oecdAvg, countries, weight, bars,
                 heatVars, slideVars>>

GridMouseover(i) ==
    /\ gridRows # <<>>
    /\ tooltip' = GridTooltip(gridRows[i], scales)
    /\ UNCHANGED <<pageVars, csv, gridRows, scales, mapData, oecdAvg, countries, weight, bars,
                 heatVars, slideVars>>

----------------------------------------------------------------------------
(* drawMap (indexWidget.js, the map half) *)

\* the indicator fields the typed record carries
MapRecFields == Range(Columns)

\* t[k.trim()] = v for every entry of the row
MapTrimmed(cols) ==
    [h \in {Trim(k) : k \in DOMAIN cols} |->
        IF \E k \in DOMAIN cols : k # h /\ Trim(k) = h
        THEN cols[CHOOSE k \in DOMAIN cols : k # h /\ Trim(k) = h]
        ELSE cols[h]]

\* +t[name]: the cell string as a number, NaN when the column is absent
MapField(t, name) ==
    IF Key(name) \in DOMAIN t THEN StringToNumber(t[Key(name)]) ELSE NaN

\* rec.groupAvg[groupName] = vals.length ? d3.mean(vals) : 0
MapGroupAvg(rec, groupName) ==
    LET vals == SelectSeq([i \in DOMAIN GROUPS[groupName] |->
                              Prop(rec, GROUPS[groupName][i])],
                          IsValidNumber)
    IN  IF Len(vals) # 0 THEN D3Mean(vals) ELSE Num(<<0, 1>>)

MapData(file) ==
    LET rawCsv == ParseCsv(file)
    IN  [i \in DOMAIN rawCsv |->
            LET t   == MapTrimmed(rawCsv[i].cols)
                rec == [c \in MapRecFields |-> MapField(t, c)]
            IN  [country  |-> rawCsv[i].Country,
                 rec      |-> rec,
                 groupAvg |-> [g \in Groups |-> MapGroupAvg(rec, g)]]]

\* oecdAvg[groupName]: the mean of the non-null group averages, else 0
MapOecdAvg(data, groupName) ==
    LET allVals == SelectSeq([i \in DOMAIN data |-> data[i].groupAvg[groupName]],
                             LAMBDA v : ~IsNullish(v))
    IN  IF Len(allVals) # 0 THEN D3Mean(allVals) ELSE Num(<<0, 1>>)

\* data.find(d => d.country === name): the record exists
HasRecord(data, name) == \E i \in DOMAIN data : data[i].country = name

\* updateComparisonWidgets(home, sel) called with the home country hr and
\* the stored item st: what it leaves in homeRec, in the stored item and in
\* the two boxes (a box that shows its placeholder shows NoCountry)
UpdateComparisonWidgetsRehome(home, sel, hr, st) ==  \* faulty variant: a selection becomes the home
    IF sel # NoCountry
    THEN [homeRec |-> sel, stored |-> sel, homeBox |-> sel, selBox |-> NoCountry]
    ELSE LET h == IF home # NoCountry THEN home ELSE hr
         IN  [homeRec |-> h, stored |-> st, homeBox |-> h, selBox |-> sel]

UpdateComparisonWidgets(home, sel, hr, st) ==
    IF home = NoCountry /\ sel # NoCountry
    THEN [homeRec |-> sel, stored |-> sel, homeBox |-> sel, selBox |-> NoCountry]
    ELSE LET h == IF home # NoCountry THEN home ELSE hr
         IN  [homeRec |-> h, stored |-> st, homeBox |-> h, selBox |-> sel]

\* drawMap initialises both boxes and shows the stored home country when
\* the data has a record of it
RestoreHome(data) ==
    LET storedName == stored
        found == storedName # NoCountry /\ HasRecord(data, storedName)
        shown == UpdateComparisonWidgets(storedName, NoCountry, storedName, stored)
    IN  /\ homeRec' = IF found THEN shown.homeRec ELSE NoCountry
        /\ homeBox' = IF found THEN shown.homeBox ELSE NoCountry
        /\ selBox' = IF found THEN shown.selBox ELSE NoCountry

DrawMap ==
    /\ csv # NoFile
    /\ mapData = <<>>
    /\ mapData' = MapData(csv)
    /\ oecdAvg' = [g \in Groups |-> MapOecdAvg(mapData', g)]
    /\ RestoreHome(mapData')
    /\ UNCHANGED <<regions, storyVars, chartVars, stored, gridSelected, dashVars, csv, gridRows, scales, tooltip,
                   countries, weight, bars, heatVars, slideVars>>

\* the click handler of a country path whose name maps to csvName
MapClick(csvName) ==
    /\ homeBox # NoBox
    /\ LET rec == IF HasRecord(mapData, csvName) THEN csvName ELSE NoCountry
           first == UpdateComparisonWidgets(homeRec, rec, homeRec, stored)
           after == IF first.homeRec = NoCountry
                    THEN UpdateComparisonWidgets(rec, NoCountry, rec, rec)
                    ELSE first
       IN  IF rec # NoCountry
           THEN /\ homeRec' = after.homeRec
                /\ stored' = after.stored
                /\ homeBox' = after.homeBox
                /\ selBox' = after.selBox
           ELSE UNCHANGED <<homeRec, stored, homeBox, selBox>>
    /\ UNCHANGED <<regions, storyVars, chartVars, gridSelected, dashVars, csv, gridRows, scales, tooltip, mapData,
                   oecdAvg, countries, weight, bars, heatVars, slideVars>>

----------------------------------------------------------------------------
(* drawIndexWidget (indexWidget.js, the ranking half; scatter.ts holds the *)
(* same code)                                                              *)

SliderMax == 10
SliderPositions == 0..(IF MaxWeight < SliderMax THEN MaxWeight ELSE SliderMax)

\* scores[grp] = vals.length ? d3.mean(vals) : 0 over +r[c] that are not NaN
WidgetScore(cols, grp) ==
    LET vals == SelectSeq([i \in DOMAIN GROUPS[grp] |->
                              ToNumber(Prop(cols, Key(GROUPS[grp][i])))],
                          LAMBDA v : ~IsNaN(v))
    IN  IF Len(vals) # 0 THEN D3Mean(vals) ELSE Num(<<0, 1>>)

\* countries = raw.map(...) with the scores of the categories of GROUPS
WidgetCountriesFor(file, cats) ==
    LET raw == ParseCsvAutoType(file)
    IN  [i \in DOMAIN raw |->
            [Country   |-> raw[i].Country,
             scores    |-> [grp \in cats |-> WidgetScore(raw[i].cols, grp)],
             composite |-> <<0, 1>>]]

WidgetCountries(file) == WidgetCountriesFor(file, Groups)

DefaultCategory == "Life Satisfaction"

\* faulty variant: the fallback taking the first category instead of the default one
UseWeightsFallbackFirst(w) ==
    LET keys   == SelectSeq(GroupNames, LAMBDA g : g \in DOMAIN w)
        totalW == D3Sum([i \in DOMAIN keys |-> Int2Rat(w[keys[i]])])
    IN  IF RLt(<<0, 1>>, totalW) THEN w ELSE [g \in {GroupNames[1]} |-> 1]

\* faulty variant: the fallback taken while the weights sum to 1 or less
UseWeightsAboveOne(w) ==
    LET keys   == SelectSeq(GroupNames, LAMBDA g : g \in DOMAIN w)
        totalW == D3Sum([i \in DOMAIN keys |-> Int2Rat(w[keys[i]])])
    IN  IF RLt(<<1, 1>>, totalW) THEN w ELSE [g \in {DefaultCategory} |-> 1]

\* totalW > 0 ? weight : { "Life Satisfaction": 1 }
UseWeights(w) ==
    LET keys   == SelectSeq(GroupNames, LAMBDA g : g \in DOMAIN w)
        totalW == D3Sum([i \in DOMAIN keys |-> Int2Rat(w[keys[i]])])
    IN  IF RLt(<<0, 1>>, totalW) THEN w ELSE [g \in {DefaultCategory} |-> 1]

\* faulty variant: a weight of 0 read as 1 (w || 1)
CompositeZeroWeightAsOne(c, useWeights) ==
    LET keys == SelectSeq(GroupNames, LAMBDA g : g \in DOMAIN useWeights)
        sumW == D3Sum([i \in DOMAIN keys |-> Int2Rat(useWeights[keys[i]])])
        s    == SumSeq([i \in DOMAIN keys |->
                          RMul(OrZero(Prop(c.scores, keys[i])).q,
                               Int2Rat(IF useWeights[keys[i]] = 0 THEN 1
                                       ELSE useWeights[keys[i]]))])
    IN  IF sumW[1] # 0 THEN RDiv(s, sumW) ELSE <<0, 1>>

\* the composite of one country: s / sumW, or 0 when sumW is 0
Composite(c, useWeights) ==
    LET keys == SelectSeq(GroupNames, LAMBDA g : g \in DOMAIN useWeights)
        sumW == D3Sum([i \in DOMAIN keys |-> Int2Rat(useWeights[keys[i]])])
        s    == SumSeq([i \in DOMAIN keys |->
                          RMul(OrZero(Prop(c.scores, keys[i])).q,
                               Int2Rat(useWeights[keys[i]]))])
    IN  IF sumW[1] # 0 THEN RDiv(s, sumW) ELSE <<0, 1>>

\* faulty variant: the comparator the other way round (a.composite - b.composite)
CompareCompositeAscending(a, b) ==
    IF RLt(a.composite, b.composite) THEN -1
    ELSE IF RLt(b.composite, a.composite) THEN 1 ELSE 0

\* (a, b) => b.composite - a.composite, as its sign
CompareComposite(a, b) ==
    IF RLt(b.composite, a.composite) THEN -1
    ELSE IF RLt(a.composite, b.composite) THEN 1 ELSE 0

\* Array.prototype.sort is stable: an element goes before the first one it
\* strictly precedes
RECURSIVE InsertSorted(_, _)
InsertSorted(sorted, x) ==
    IF sorted = <<>> THEN <<x>>
    ELSE IF CompareComposite(x, Head(sorted)) < 0 THEN <<x>> \o sorted
    ELSE <<Head(sorted)>> \o InsertSorted(Tail(sorted), x)

RECURSIVE SortCountries(_)
SortCountries(list) ==
    IF list = <<>> THEN <<>>
    ELSE InsertSorted(SortCountries(SubSeq(list, 1, Len(list) - 1)), list[Len(list)])

\* updateRanking: every composite recomputed, then the array sorted in place
UpdateRanking(list, w) ==
    LET useWeights == UseWeights(w)
    IN  SortCountries([i \in DOMAIN list |->
                          [list[i] EXCEPT !.composite = Composite(list[i], useWeights)]])

\* the bars updateRanking draws: one per entry of countries, in its order,
\* labelled with the country and as wide as the composite
BarsOf(list) == [i \in DOMAIN list |-> <<list[i].Country, list[i].composite>>]

ZeroWeights == [grp \in Groups |-> 0]

\* drawIndexWidget with GROUPS holding the categories cats: a slider and a
\* weight of 0 for each, then the first updateRanking
DrawIndexWidgetFor(cats) ==
    /\ csv # NoFile
    /\ countries = <<>>
    /\ weight' = [grp \in cats |-> 0]
    /\ countries' = UpdateRanking(WidgetCountriesFor(csv, cats), weight')
    /\ bars' = BarsOf(countries')
    /\ UNCHANGED <<pageVars, csv, gridRows, scales, tooltip, mapData, oecdAvg,
                   heatVars, slideVars>>

DrawIndexWidget ==
    /\ csv # NoFile
    /\ countries = <<>>
    /\ weight' = ZeroWeights
    /\ countries' = UpdateRanking(WidgetCountries(csv), ZeroWeights)
    /\ bars' = BarsOf(countries')
    /\ UNCHANGED <<pageVars, csv, gridRows, scales, tooltip, mapData, oecdAvg,
                 heatVars, slideVars>>

\* the "input" handler of one slider
SliderInput(grp, value) ==
    /\ countries # <<>>
    /\ grp \in DOMAIN weight
    /\ value # weight[grp]
    /\ weight' = [weight EXCEPT ![grp] = value]
    /\ countries' = UpdateRanking(countries, weight')
    /\ bars' = BarsOf(countries')
    /\ UNCHANGED <<pageVars, csv, gridRows, scales, tooltip, mapData, oecdAvg,
                 heatVars, slideVars>>

----------------------------------------------------------------------------
(* drawHeatmap and computeCorrelation (heatmap.ts) *)

\* raw.columns.filter(c => typeof raw[0][c] === "number" && c !== "Population")
HeatColumns(file, raw) ==
    SelectSeq(file.header,
              LAMBDA h : raw[1].cols[h].k = "number" /\ h # Key("Population"))

\* A result of computeCorrelation: NaN, an infinity, or the finite number
\* sign * sqrt(sq), kept as its sign and its square so that the square
\* roots of the source stay exact
CorrNaN == [k |-> "NaN", sign |-> 0, sq |-> <<0, 1>>]
CorrInfinity(sign) == [k |-> "Infinity", sign |-> sign, sq |-> <<0, 1>>]
CorrNumber(sign, sq) == [k |-> "number", sign |-> sign, sq |-> sq]
CorrOne == CorrNumber(1, <<1, 1>>)

Sign(q) == IF q[1] > 0 THEN 1 ELSE IF q[1] < 0 THEN -1 ELSE 0

\* v - mean for a cell v that is a number or null (null counts as 0)
Deviation(v, mean) == RSub(ToNumber(v).q, mean)

\* faulty variant: the standard deviations over n instead of n - 1
ComputeCorrelationPopulationSd(a, b) ==
    LET n     == Len(a)
        meanA == D3Mean(a)
        meanB == D3Mean(b)
        devA  == [i \in DOMAIN a |-> Deviation(a[i], meanA.q)]
        devB  == [i \in DOMAIN b |-> Deviation(b[i], meanB.q)]
        cov   == RDiv(D3Sum([i \in DOMAIN a |-> RMul(devA[i], devB[i])]), Int2Rat(n - 1))
        varA  == RDiv(D3Sum([i \in DOMAIN a |-> RMul(devA[i], devA[i])]), Int2Rat(n))
        varB  == RDiv(D3Sum([i \in DOMAIN b |-> RMul(devB[i], devB[i])]), Int2Rat(n))
    IN  IF n - 1 = 0 \/ meanA.k # "number" \/ meanB.k # "number" THEN CorrNaN
        ELSE IF varA[1] = 0 \/ varB[1] = 0
             THEN IF cov[1] = 0 THEN CorrNaN ELSE CorrInfinity(Sign(cov))
        ELSE CorrNumber(Sign(cov), RDiv(RMul(cov, cov), RMul(varA, varB)))

\* computeCorrelation(a, b) = cov / (sdA * sdB), all three over n - 1 with
\* n = a.length; the means skip null cells, the deviations do not; a zero
\* divisor gives NaN (0 / 0) or an infinity
ComputeCorrelation(a, b) ==
    LET n     == Len(a)
        meanA == D3Mean(a)
        meanB == D3Mean(b)
        devA  == [i \in DOMAIN a |-> Deviation(a[i], meanA.q)]
        devB  == [i \in DOMAIN b |-> Deviation(b[i], meanB.q)]
        cov   == RDiv(D3Sum([i \in DOMAIN a |-> RMul(devA[i], devB[i])]), Int2Rat(n - 1))
        varA  == RDiv(D3Sum([i \in DOMAIN a |-> RMul(devA[i], devA[i])]), Int2Rat(n - 1))
        varB  == RDiv(D3Sum([i \in DOMAIN b |-> RMul(devB[i], devB[i])]), Int2Rat(n - 1))
    IN  IF n - 1 = 0 \/ meanA.k # "number" \/ meanB.k # "number" THEN CorrNaN
        ELSE IF varA[1] = 0 \/ varB[1] = 0
             THEN IF cov[1] = 0 THEN CorrNaN ELSE CorrInfinity(Sign(cov))
        ELSE CorrNumber(Sign(cov), RDiv(RMul(cov, cov), RMul(varA, varB)))

\* raw.map(r => r[c])
HeatColumn(raw, c) == [i \in DOMAIN raw |-> raw[i].cols[c]]

\* the cells of the matrix: row y, column x
HeatMatrix(raw, cs) ==
    [p \in (DOMAIN cs) \X (DOMAIN cs) |->
        ComputeCorrelation(HeatColumn(raw, cs[p[1]]), HeatColumn(raw, cs[p[2]]))]

DrawHeatmap ==
    /\ csv # NoFile
    /\ heatCols = <<>>
    /\ LET raw == ParseCsvAutoType(csv)
       IN  IF Len(raw) = 0
           THEN UNCHANGED heatVars
           ELSE /\ heatCols' = HeatColumns(csv, raw)
                /\ matrix' = HeatMatrix(raw, heatCols')
    /\ UNCHANGED <<pageVars, csv, gridRows, scales, tooltip, mapData, oecdAvg, countries, weight, bars,
                   slideVars>>

----------------------------------------------------------------------------
(* The introduction carousel (main.js) *)

MaxPending == 2         \* draw calls of one view awaiting data at a time

\* the indexes of the slides that hold a view
GridSlide == 1          \* "Where are you from?"
ScatterSlide == 2       \* "Does Money Buy Happiness?"
MapSlide == 4           \* "World Map"

\* the view renderSlideContent(idx) starts: the slide holds one and the
\* element its guard looks for is not in the container
Starts(idx, v) ==
    /\ svgs[v] = 0
    /\ \/ v = "grid" /\ idx = GridSlide
       \/ v = "scatter" /\ idx = ScatterSlide
       \/ v = "map" /\ idx = MapSlide

\* renderSlideContent(idx) with the synchronous part of the draw call it
\* makes: drawScatter appends its svg before it awaits the file, drawMap and
\* renderCountryGrid append nothing until the file has arrived; the grid
\* slide's Next button is disabled until a country is selected
RenderSlideContent(idx) ==
    /\ \A v \in Views : Starts(idx, v) => pending[v] < MaxPending
    /\ pending' = [v \in Views |-> IF Starts(idx, v) THEN pending[v] + 1 ELSE pending[v]]
    /\ svgs' = [v \in Views |-> IF v = "scatter" /\ Starts(idx, v) THEN 1 ELSE svgs[v]]
    /\ drawn' = [v \in Views |-> IF Starts(idx, v) /\ v # "grid" THEN FALSE ELSE drawn[v]]
    /\ nextDisabled' = IF Starts(idx, "grid") THEN TRUE ELSE nextDisabled

\* navigateTo(index): a progress dot, or navigate(dir) below
NavigateTo(index) ==
    /\ ~(index < 0 \/ index >= NumSlides \/ index = current)
    /\ slideActive' = (slideActive \ {current}) \cup {index}
    /\ current' = index
    /\ dotClass' = UpdateProgress(current')
    /\ RenderSlideContent(index)
    /\ UNCHANGED <<pageVars, csv, gridRows, scales, tooltip, mapData, oecdAvg, countries, weight, bars,
                   heatVars, settled>>

\* navigate(dir): Prev / Next and the arrow keys; Next on the last slide
\* leaves the page
Navigate(dir) ==
    /\ ~(current = NumSlides - 1 /\ dir = 1)
    /\ NavigateTo(current + dir)

\* the Next button of the active slide; a disabled button gets no click
NextClick ==
    /\ ~(current = GridSlide /\ nextDisabled)
    /\ Navigate(1)

\* the Prev button of the active slide
PrevClick == Navigate(-1)

\* the keydown listener of the window
KeyDown(key) ==
    \/ key = "ArrowRight" /\ Navigate(1)
    \/ key = "ArrowLeft" /\ Navigate(-1)

\* the click listener of progress dot i
DotClick(i) == NavigateTo(i)

\* the file request of one pending draw call of the view is rejected: the
\* await throws and the call ends there
LoadFails(v) ==
    /\ pending[v] > 0
    /\ pending' = [pending EXCEPT ![v] = @ - 1]
    /\ settled' = [settled EXCEPT ![v] = "rejected"]
    /\ UNCHANGED <<pageVars, csv, gridRows, scales, tooltip, mapData, oecdAvg, countries, weight, bars,
                   heatVars, current, svgs, drawn, nextDisabled, progressVars>>

\* the file of one pending draw call of the view arrives and the call runs
\* to its end: renderCountryGrid joins the rows to .country-box elements
\* (only rows without a box get one), drawScatter returns on an empty file
\* and else draws into its svg, drawMap computes and appends controls and svg
LoadArrives(v) ==
    /\ pending[v] > 0
    /\ pending' = [pending EXCEPT ![v] = @ - 1]
    /\ settled' = [settled EXCEPT ![v] = "fulfilled"]
    /\ CASE v = "grid" ->
              /\ gridRows' = GridRows(csv)
              /\ scales' = [cat \in Groups |-> GridScaleDomain(gridRows', cat)]
              /\ svgs' = [svgs EXCEPT ![v] = IF Len(gridRows') > 0 THEN 1 ELSE @]
              /\ drawn' = [drawn EXCEPT ![v] = TRUE]
              /\ UNCHANGED <<mapData, oecdAvg>>
         [] v = "scatter" ->
              /\ drawn' = [drawn EXCEPT ![v] = IF Len(ParseCsvAutoType(csv)) = 0 THEN @ ELSE TRUE]
              /\ UNCHANGED <<gridRows, scales, mapData, oecdAvg, svgs>>
         [] v = "map" ->
              /\ mapData' = MapData(csv)
              /\ oecdAvg' = [g \in Groups |-> MapOecdAvg(mapData', g)]
              /\ svgs' = [svgs EXCEPT ![v] = @ + 1]
              /\ drawn' = [drawn EXCEPT ![v] = TRUE]
              /\ RestoreHome(mapData')
              /\ UNCHANGED <<gridRows, scales>>
    /\ IF v = "map" THEN TRUE ELSE UNCHANGED mapBoxVars
    /\ UNCHANGED <<regions, storyVars, chartVars, stored, gridSelected, dashVars, csv, tooltip, countries, weight,
                   bars, heatVars, current, nextDisabled, progressVars>>

\* the click handler of the country boxes (renderCountryGrid): the box of
\* row i becomes the only selected one, its country is stored and the
\* "countrySelected" event runs the carousel's listener, which enables Next
GridBoxClick(i) ==
    /\ i \in DOMAIN gridRows
    /\ gridSelected' = gridRows[i].Country
    /\ stored' = gridRows[i].Country
    /\ nextDisabled' = FALSE
    /\ UNCHANGED <<regions, storyVars, chartVars, mapBoxVars, dashVars, csv, gridRows, scales, tooltip, mapData,
                   oecdAvg, countries, weight, bars, heatVars, current, pending, svgs,
                   drawn, settled, progressVars>>

----------------------------------------------------------------------------
(* The carousel of main.ts, which keeps its slide index in localStorage,   *)
(* and the story progress dots of the dashboard (dashboard.js)             *)

\* slides.length of main.ts and the indexes of the slides that hold a view
TsNumSlides == 7
TsScatterSlide == 2     \* "Money or time? What really makes us happy?"
TsMapSlide == 4         \* "Where are you from?"

\* parseInt(str, 10) on the item texts of the model: the integer a text
\* is the decimal form of, and whether there is none (NaN)
ParseIntIsNaN(str) == ~\E n \in -1..TsNumSlides : ToString(n) = str

ParseInt(str) == CHOOSE n \in -1..TsNumSlides : ToString(n) = str

\* the slide index the module body of main.ts restores from the item
RestoredIndex(saved) ==
    IF saved = NoItem THEN 0
    ELSE IF ParseIntIsNaN(saved) THEN 0
    ELSE LET idx == ParseInt(saved)
         IN  IF idx >= 0 /\ idx < TsNumSlides THEN idx ELSE 0

\* the view navigate() of main.ts starts on landing on slide idx
TsStarts(idx, v) ==
    /\ svgs[v] = 0
    /\ \/ v = "map" /\ idx = TsMapSlide
       \/ v = "scatter" /\ idx = TsScatterSlide

\* navigate(dir) of main.ts: Prev / Next and the arrow keys; Next on the
\* last slide stores the index and opens the dashboard
TsNavigate(dir) ==
    /\ location = "index.html"
    /\ IF current = TsNumSlides - 1 /\ dir = 1
       THEN /\ slideActive' = slideActive \ {current}
            /\ savedSlide' = ToString(current)
            /\ location' = "dashboard.html"
            /\ UNCHANGED <<current, pending, svgs, drawn>>
       ELSE /\ current' = (current + dir + TsNumSlides) % TsNumSlides
            /\ slideActive' = (slideActive \ {current}) \cup {current'}
            /\ savedSlide' = ToString(current')
            /\ \A v \in Views : TsStarts(current', v) => pending[v] < MaxPending
            /\ pending' = [v \in Views |->
                              IF TsStarts(current', v) THEN pending[v] + 1 ELSE pending[v]]
            /\ svgs' = [v \in Views |->
                           IF v = "scatter" /\ TsStarts(current', v) THEN 1 ELSE svgs[v]]
            /\ drawn' = [v \in Views |-> IF TsStarts(current', v) THEN FALSE ELSE drawn[v]]
            /\ UNCHANGED location
    /\ UNCHANGED <<regions, selectVars, chartVars, targetSlide, csv, gridRows, scales, tooltip, mapData,
                   oecdAvg, countries, weight, bars, heatVars, settled, nextDisabled,
                   dotClass>>

\* the module body of main.ts in a freshly opened index.html: the saved
\* slide is made active, nothing is drawn
StoryOpened ==
    /\ location' = "index.html"
    /\ current' = RestoredIndex(savedSlide)
    /\ slideActive' = {current'}
    /\ pending' = [v \in Views |-> 0]
    /\ svgs' = [v \in Views |-> 0]
    /\ drawn' = [v \in Views |-> FALSE]
    /\ settled' = [v \in Views |-> "none"]
    /\ mapData' = <<>>
    /\ oecdAvg' = <<>>
    /\ homeRec' = NoCountry
    /\ homeBox' = NoBox
    /\ selBox' = NoBox
    /\ UNCHANGED <<regions, chartVars, stored, gridSelected, dashVars, savedSlide, csv, gridRows, scales,
                   tooltip, countries, weight, bars, heatVars, nextDisabled, dotClass>>

\* the click listener of story dot i of the dashboard (dots 0..5): stores
\* the index and opens index.html, whose script then runs
ProgressDotClick(slideIndex) ==
    /\ location = "dashboard.html"
    /\ slideIndex >= 0 /\ slideIndex <= 5
    /\ targetSlide' = ToString(slideIndex)
    /\ StoryOpened

\* the story opened or reloaded by its address
StoryReload ==
    /\ UNCHANGED targetSlide
    /\ StoryOpened

----------------------------------------------------------------------------
(* regionOf (dashboard.js and the copy inside drawScatter, scatter.js) *)

\* The row names classified here, with the characters of each: three
\* countries of the lists, a country of no list, and two aggregate rows
Characters ==
    ("Austria" :> <<"A", "u", "s", "t", "r", "i", "a">>) @@
    ("Canada" :> <<"C", "a", "n", "a", "d", "a">>) @@
    ("South Africa" :> <<"S", "o", "u", "t", "h", " ", "A", "f", "r", "i", "c", "a">>) @@
    ("Brazil" :> <<"B", "r", "a", "z", "i", "l">>) @@
    ("OECD - Total" :> <<"O", "E", "C", "D", " ", "-", " ", "T", "o", "t", "a", "l">>) @@
    ("European Union (27 countries)" :> <<"E", "u", "r", "o", "p", "e", "a", "n", " ", "U", "n", "i", "o", "n", " ", "(", "2", "7", " ", "c", "o", "u", "n", "t", "r", "i", "e", "s", ")">>)

RowNames == DOMAIN Characters

\* the rows that are aggregates, not countries
AggregateRows == {"OECD - Total", "European Union (27 countries)"}

\* String.prototype.toLowerCase, character by character
UpperLetters == <<"A", "B", "C", "D", "E", "F", "G", "H", "I", "J", "K", "L", "M",
                  "N", "O", "P", "Q", "R", "S", "T", "U", "V", "W", "X", "Y", "Z">>
LowerLetters == <<"a", "b", "c", "d", "e", "f", "g", "h", "i", "j", "k", "l", "m",
                  "n", "o", "p", "q", "r", "s", "t", "u", "v", "w", "x", "y", "z">>
ToLowerCase(text) ==
    [i \in DOMAIN text |->
        IF \E k \in DOMAIN UpperLetters : UpperLetters[k] = text[i]
        THEN LowerLetters[CHOOSE k \in DOMAIN UpperLetters : UpperLetters[k] = text[i]]
        ELSE text[i]]

\* String.prototype.includes
Includes(text, sub) ==
    \E i \in 0..(Len(text) - Len(sub)) : SubSeq(text, i + 1, i + Len(sub)) = sub

\* the lists of regionOf, cut down to the row names above
DashEu == {"Austria", "Belgium", "European Union (27 countries)"}
DashAm == {"Canada"}
DashAf == {"South Africa"}
ScatterEu == {"Austria", "Belgium"}
ScatterAm == {"Canada"}

\* regionOf of dashboard.js
DashRegionOf(country) ==
    IF country \in DashEu THEN "Europe"
    ELSE IF country \in DashAm THEN "Americas"
    ELSE IF country \in DashAf THEN "Africa"
    ELSE IF \/ Includes(ToLowerCase(Characters[country]), <<"o", "e", "c", "d">>)
            \/ Includes(ToLowerCase(Characters[country]), <<"t", "o", "t", "a", "l">>)
         THEN "OECD Average"
    ELSE "Other"

\* regionOf of scatter.js: a name of no list is given "Europe"
ScatterRegionOf(country) ==
    IF country \in ScatterEu THEN "Europe"
    ELSE IF country \in ScatterAm THEN "Americas"
    ELSE "Europe"

\* the fill of the circle of a plotted row (scatter.js) and the group of a
\* row in the bar chart's continent mode (dashboard.js)
ClassifyRow(view, name) ==
    /\ name \notin DOMAIN regions[view]
    /\ regions' = [regions EXCEPT ![view] =
                      [n \in DOMAIN @ \cup {name} |->
                          IF n = name
                          THEN IF view = "scatter" THEN ScatterRegionOf(name)
                               ELSE DashRegionOf(name)
                          ELSE @[n]]]
    /\ UNCHANGED <<csv, gridRows, scales, tooltip, mapData, oecdAvg, countries, weight,
                   bars, heatVars, slideVars, selectVars, storyVars, chartVars>>

----------------------------------------------------------------------------
(* The bar chart of the dashboard (dashboard.js) *)

\* the options of #num-select
NumSelectOptions == {"Top 3", "Top 5", "Top 10", "Top 15", "All"}

\* numVal.startsWith('Top ') and +numVal.split(' ')[1]
StartsWithTop(numVal) == \E n \in 0..15 : "Top " \o ToString(n) = numVal
TopCount(numVal) == CHOOSE n \in 0..15 : "Top " \o ToString(n) = numVal

\* numericKeys: the columns whose value in the first row is a number
NumericKeys(file) ==
    LET raw == ParseCsvAutoType(file)
    IN  SelectSeq(file.header, LAMBDA k : raw[1].cols[k].k = "number")

\* the elements of a sequence in the order of their first appearance
RECURSIVE Distinct(_)
Distinct(seq) ==
    IF seq = <<>> THEN <<>>
    ELSE LET rest == Distinct(SubSeq(seq, 1, Len(seq) - 1))
         IN  IF seq[Len(seq)] \in Range(rest) THEN rest ELSE Append(rest, seq[Len(seq)])

\* the key a row is grouped by
BarKey(d, continentMode) == IF continentMode THEN DashRegionOf(d.Country) ELSE d.Country

\* d3.rollup(data, v => d3.mean(v, d => d[prop]), key), as Array.from(entries)
D3Rollup(data, prop, continentMode) ==
    LET keys == Distinct([i \in DOMAIN data |-> BarKey(data[i], continentMode)])
    IN  [k \in DOMAIN keys |->
            LET v == SelectSeq(data, LAMBDA d : BarKey(d, continentMode) = keys[k])
            IN  [key |-> keys[k],
                 value |-> D3Mean([i \in DOMAIN v |-> Prop(v[i].cols, prop)])]]

\* d3.descending(a, b) of two numbers
D3DescendingFlipped(a, b) ==  \* faulty variant: ascending
    IF RLt(a.q, b.q) THEN -1 ELSE IF RLt(b.q, a.q) THEN 1 ELSE 0

D3Descending(a, b) ==
    IF RLt(b.q, a.q) THEN -1 ELSE IF RLt(a.q, b.q) THEN 1 ELSE 0

\* entries.sort((a, b) => d3.descending(a.value, b.value)), stable
RECURSIVE InsertEntry(_, _)
InsertEntry(sorted, x) ==
    IF sorted = <<>> THEN <<x>>
    ELSE IF D3Descending(x.value, Head(sorted).value) < 0 THEN <<x>> \o sorted
    ELSE <<Head(sorted)>> \o InsertEntry(Tail(sorted), x)

RECURSIVE SortEntries(_)
SortEntries(list) ==
    IF list = <<>> THEN <<>>
    ELSE InsertEntry(SortEntries(SubSeq(list, 1, Len(list) - 1)), list[Len(list)])

\* entries.slice(0, n)
Slice(list, n) == SubSeq(list, 1, IF n < Len(list) THEN n ELSE Len(list))

\* the entries renderBarChart joins to its bars, <<>> where it returns
\* with the container emptied
BarEntries(file, prop, numVal, continentMode) ==
    LET wide == ParseCsvAutoType(file)
        dataForProp == SelectSeq(wide, LAMBDA d : Prop(d.cols, prop).k = "number")
        grouped == D3Rollup(dataForProp, prop, continentMode)
        mapped == [i \in DOMAIN grouped |->
                     [key |-> grouped[i].key,
                      value |-> IF grouped[i].value.k = "undefined" \/ IsNaN(grouped[i].value)
                                THEN Num(<<0, 1>>) ELSE grouped[i].value]]
        entries == SortEntries(SelectSeq(mapped, LAMBDA d : ~IsNullish(d.value)))
    IN  IF ~continentMode /\ StartsWithTop(numVal)
        THEN Slice(entries, TopCount(numVal))
        ELSE entries

\* renderBarChart() with the controls as given
RenderBarChart(prop, numVal, continentMode) ==
    barChart' = [prop |-> prop, numVal |-> numVal, continentMode |-> continentMode,
                 entries |-> BarEntries(csv, prop, numVal, continentMode)]

\* propertySelect.onchange after the user has picked prop
PropertyChange(prop) ==
    /\ countrySelect # NoBox
    /\ prop \in Range(NumericKeys(csv))
    /\ prop # barChart.prop
    /\ RenderBarChart(prop, barChart.numVal, barChart.continentMode)
    /\ UNCHANGED <<regions, selectVars, storyVars, resizeVars, csv, gridRows, scales, tooltip,
                   mapData, oecdAvg, countries, weight, bars, heatVars, slideVars>>

\* numSelect.onchange after the user has picked numVal
NumChange(numVal) ==
    /\ countrySelect # NoBox
    /\ numVal # barChart.numVal
    /\ RenderBarChart(barChart.prop, numVal, barChart.continentMode)
    /\ UNCHANGED <<regions, selectVars, storyVars, resizeVars, csv, gridRows, scales, tooltip,
                   mapData, oecdAvg, countries, weight, bars, heatVars, slideVars>>

\* continentCheckbox.onchange
ContinentChange ==
    /\ countrySelect # NoBox
    /\ RenderBarChart(barChart.prop, barChart.numVal, ~barChart.continentMode)
    /\ UNCHANGED <<regions, selectVars, storyVars, resizeVars, csv, gridRows, scales, tooltip,
                   mapData, oecdAvg, countries, weight, bars, heatVars, slideVars>>

----------------------------------------------------------------------------
(* The debounced resize listener of the dashboard (dashboard.js).  Time    *)
(* is counted in steps, Resolution of them to the 250 ms of the debounce;  *)
(* a timer that is due runs before anything else of the same instant.      *)

Resolution == 5         \* steps of time in the 250 ms wait
MaxQuiet == 8           \* steps followed after a resize event
MaxBurst == 3           \* resize events in one burst

\* debounce(..., 250): the wait, in steps
Wait == Resolution

\* executedFunction: clearTimeout(timeout); timeout = setTimeout(later, wait)
\* -- the steps until the timer fires, given those the earlier one had left
SetTimeoutKeepsPending(remaining) ==  \* faulty variant: a pending timer is not restarted
    IF remaining # NoTimer THEN remaining ELSE Wait

SetTimeout(remaining) == Wait

\* a resize event of the window
Resize ==
    /\ countrySelect # NoBox
    /\ timeout # 0
    /\ timeout # NoTimer => burst < MaxBurst
    /\ burst' = IF timeout # NoTimer THEN burst + 1 ELSE 1
    /\ renders' = IF timeout # NoTimer THEN renders ELSE 0
    /\ timeout' = SetTimeout(timeout)
    /\ sinceResize' = 0
    /\ UNCHANGED <<regions, selectVars, storyVars, barChart, csv, gridRows, scales, tooltip,
                   mapData, oecdAvg, countries, weight, bars, heatVars, slideVars>>

\* one step of time passes with no event and no timer due
Tick ==
    /\ sinceResize # NoResize
    /\ sinceResize < MaxQuiet
    /\ timeout # 0
    /\ sinceResize' = sinceResize + 1
    /\ timeout' = IF timeout = NoTimer THEN NoTimer ELSE timeout - 1
    /\ UNCHANGED <<regions, selectVars, storyVars, barChart, burst, renders, csv, gridRows,
                   scales, tooltip, mapData, oecdAvg, countries, weight, bars, heatVars,
                   slideVars>>

\* later(): the timer fires and the listener re-renders the charts
Later ==
    /\ timeout = 0
    /\ timeout' = NoTimer
    /\ renders' = renders + 1
    /\ RenderBarChart(barChart.prop, barChart.numVal, barChart.continentMode)
    /\ UNCHANGED <<regions, selectVars, storyVars, sinceResize, burst, csv, gridRows, scales,
                   tooltip, mapData, oecdAvg, countries, weight, bars, heatVars, slideVars>>

----------------------------------------------------------------------------
(* The country selection of the dashboard (dashboard.js) *)

\* Array.from(new Set(raw.map(d => d.Country))).sort(): CountryNames is in
\* the order sort() gives
DashboardCountries(raw) ==
    SelectSeq(CountryNames, LAMBDA c : \E i \in DOMAIN raw : raw[i].Country = c)

\* the callback of d3.csv: fills the drop-down, picks the country shown and
\* renders the bar chart with the first numeric column and "Top 10"
DashboardLoaded ==
    /\ csv # NoFile
    /\ countrySelect = NoBox
    /\ LET raw == ParseCsvAutoType(csv)
           names == DashboardCountries(raw)
           savedCountry == stored
       IN  /\ Len(raw) # 0
           /\ IF savedCountry # NoCountry /\ savedCountry \in Range(names)
              THEN /\ countrySelect' = savedCountry
                   /\ scatterPlotMasterCountry' = savedCountry
              ELSE IF Len(names) > 0
              THEN /\ countrySelect' = names[1]
                   /\ scatterPlotMasterCountry' = names[1]
              ELSE UNCHANGED dashVars
    /\ LET numericKeys == NumericKeys(csv)
       IN  RenderBarChart(IF Len(numericKeys) > 0 THEN numericKeys[1] ELSE NoChart.prop,
                          "Top 10", FALSE)
    /\ UNCHANGED <<regions, storyVars, resizeVars, stored, gridSelected, mapBoxVars, csv, gridRows, scales, tooltip,
                   mapData, oecdAvg, countries, weight, bars, heatVars, slideVars>>

\* countrySelect.onchange after the user has picked value
CountrySelectChange(value) ==
    /\ countrySelect # NoBox
    /\ value # countrySelect
    /\ countrySelect' = value
    /\ scatterPlotMasterCountry' = value
    /\ stored' = value
    /\ UNCHANGED <<regions, storyVars, chartVars, gridSelected, mapBoxVars, csv, gridRows, scales, tooltip,
                   mapData, oecdAvg, countries, weight, bars, heatVars, slideVars>>

----------------------------------------------------------------------------
\* The page before any view has loaded the file
InitLoad ==
    /\ \E cells \in CellTables : csv = DatasetOf(cells)
    /\ gridRows = <<>>
    /\ scales = <<>>
    /\ tooltip = NoTooltip
    /\ mapData = <<>>
    /\ oecdAvg = <<>>
    /\ countries = <<>>
    /\ weight = <<>>
    /\ bars = <<>>
    /\ HeatBlank
    /\ SlidesBlank
    /\ PagesBlank

NextLoad ==
    \/ RenderCountryGrid
    \/ DrawMap
    \/ DrawIndexWidget

SpecLoad == InitLoad /\ [][NextLoad]_vars

\* A smaller family of cell texts: the two Environment columns free, the
\* third column holding one text in every row
SmallTables == [1..NumCountries -> [1..2 -> CellTexts]]
SmallCells(cells, same) == [i \in 1..NumCountries |-> Append(cells[i], same)]

\* The heatmap page before drawHeatmap has loaded the file
InitHeat ==
    /\ \E cells \in SmallTables, same \in CellTexts :
          csv = DatasetOf(SmallCells(cells, same))
    /\ gridRows = <<>>
    /\ scales = <<>>
    /\ tooltip = NoTooltip
    /\ mapData = <<>>
    /\ oecdAvg = <<>>
    /\ countries = <<>>
    /\ weight = <<>>
    /\ bars = <<>>
    /\ HeatBlank
    /\ SlidesBlank
    /\ PagesBlank

NextHeat == DrawHeatmap

SpecHeat == InitHeat /\ [][NextHeat]_vars

\* How a column appears in a file: header as named, header with a leading
\* space, or no such column
HeaderForms == {"plain", "padded", "absent"}

\* the file with the columns in the given forms and the given cell texts
FileOf(forms, cells) ==
    LET present == SelectSeq([j \in DOMAIN Columns |-> j],
                             LAMBDA j : forms[j] # "absent")
    IN  [header |-> [k \in DOMAIN present |->
                        <<IF forms[present[k]] = "padded" THEN 1 ELSE 0,
                          Columns[present[k]]>>],
         rows   |-> [i \in 1..NumCountries |->
                        [Country |-> CountryNames[i],
                         cells   |-> [k \in DOMAIN present |-> cells[i][present[k]]]]]]

\* The page before any view has loaded a file with padded or missing
\* columns, of the smaller family of cell texts
InitHeader ==
    /\ \E forms \in [DOMAIN Columns -> HeaderForms],
          cells \in SmallTables, same \in CellTexts :
          csv = FileOf(forms, SmallCells(cells, same))
    /\ gridRows = <<>>
    /\ scales = <<>>
    /\ tooltip = NoTooltip
    /\ mapData = <<>>
    /\ oecdAvg = <<>>
    /\ countries = <<>>
    /\ weight = <<>>
    /\ bars = <<>>
    /\ HeatBlank
    /\ SlidesBlank
    /\ PagesBlank

NextHeader ==
    \/ RenderCountryGrid
    \/ DrawMap
    \/ DrawIndexWidget

SpecHeader == InitHeader /\ [][NextHeader]_vars

\* a file with no data row
EmptyFile ==
    [header |-> [j \in DOMAIN Columns |-> Key(Columns[j])], rows |-> <<>>]

\* a file with data in every cell
SampleFile ==
    [header |-> [j \in DOMAIN Columns |-> Key(Columns[j])],
     rows   |-> [i \in 1..NumCountries |->
                   [Country |-> CountryNames[i],
                    cells   |-> [j \in DOMAIN Columns |-> Numeral((i + j) % (MaxVal + 1))]]]]

\* The carousel once initCarousel has returned: first slide, nothing drawn
InitSlides ==
    /\ csv \in {SampleFile, EmptyFile}
    /\ gridRows = <<>>
    /\ scales = <<>>
    /\ tooltip = NoTooltip
    /\ mapData = <<>>
    /\ oecdAvg = <<>>
    /\ countries = <<>>
    /\ weight = <<>>
    /\ bars = <<>>
    /\ HeatBlank
    /\ SlidesBlank
    /\ PagesBlank

NextSlides ==
    \/ \E index \in 0..(NumSlides - 1) : NavigateTo(index)
    \/ \E dir \in {-1, 1} : Navigate(dir)
    \/ \E v \in Views : LoadFails(v)
    \/ \E v \in Views : LoadArrives(v)

SpecSlides == InitSlides /\ [][NextSlides]_vars

\* The carousel as its user drives it: buttons, keys, progress dots and the
\* boxes of the country grid
NextCarousel ==
    \/ NextClick
    \/ PrevClick
    \/ \E key \in {"ArrowRight", "ArrowLeft"} : KeyDown(key)
    \/ \E i \in 0..(NumSlides - 1) : DotClick(i)
    \/ \E i \in 1..NumCountries : GridBoxClick(i)
    \/ \E v \in Views : LoadFails(v)
    \/ \E v \in Views : LoadArrives(v)

SpecCarousel == InitSlides /\ [][NextCarousel]_vars

\* what the item "bli-current-slide" can hold when the story opens
SavedItems == {NoItem, "x"} \cup {ToString(n) : n \in -1..TsNumSlides}

\* index.html with main.ts once its module body has run
InitStory ==
    /\ csv \in {SampleFile, EmptyFile}
    /\ gridRows = <<>>
    /\ scales = <<>>
    /\ tooltip = NoTooltip
    /\ mapData = <<>>
    /\ oecdAvg = <<>>
    /\ countries = <<>>
    /\ weight = <<>>
    /\ bars = <<>>
    /\ HeatBlank
    /\ RegionsBlank
    /\ SelectBlank
    /\ ChartBlank
    /\ savedSlide \in SavedItems
    /\ targetSlide = NoItem
    /\ location = "index.html"
    /\ current = RestoredIndex(savedSlide)
    /\ slideActive = {current}
    /\ dotClass = UpdateProgress(0)
    /\ pending = [v \in Views |-> 0]
    /\ svgs = [v \in Views |-> 0]
    /\ drawn = [v \in Views |-> FALSE]
    /\ settled = [v \in Views |-> "none"]
    /\ nextDisabled = FALSE

NextStory ==
    \/ \E dir \in {-1, 1} : TsNavigate(dir)
    \/ \E v \in Views : location = "index.html" /\ LoadFails(v)
    \/ \E v \in Views : location = "index.html" /\ LoadArrives(v)
    \/ \E slideIndex \in 0..5 : ProgressDotClick(slideIndex)
    \/ StoryReload

SpecStory == InitStory /\ [][NextStory]_vars

\* The rows of the bar chart's file: four countries and an aggregate row
BarRowNames == <<"Austria", "Belgium", "Canada", "South Africa", "OECD - Total">>

\* a file whose first column holds any texts, with two full columns
BarColumns == [1..Len(BarRowNames) -> CellTexts]
BarFile(column) ==
    [header |-> [j \in DOMAIN Columns |-> Key(Columns[j])],
     rows   |-> [i \in DOMAIN BarRowNames |->
                   [Country |-> BarRowNames[i],
                    cells   |-> <<column[i], Numeral(i % (MaxVal + 1)), Numeral(0)>>]]]

\* The dashboard before its file has arrived
InitBars ==
    /\ \E column \in BarColumns : csv = BarFile(column)
    /\ gridRows = <<>>
    /\ scales = <<>>
    /\ tooltip = NoTooltip
    /\ mapData = <<>>
    /\ oecdAvg = <<>>
    /\ countries = <<>>
    /\ weight = <<>>
    /\ bars = <<>>
    /\ HeatBlank
    /\ SlidesBlank
    /\ PagesBlank

NextBars ==
    \/ DashboardLoaded
    \/ \E prop \in {Key(Columns[j]) : j \in DOMAIN Columns} : PropertyChange(prop)
    \/ \E numVal \in NumSelectOptions : NumChange(numVal)
    \/ ContinentChange

SpecBars == InitBars /\ [][NextBars]_vars

\* The dashboard before its file has arrived, in a window that is resized
InitResize ==
    /\ csv = SampleFile
    /\ gridRows = <<>>
    /\ scales = <<>>
    /\ tooltip = NoTooltip
    /\ mapData = <<>>
    /\ oecdAvg = <<>>
    /\ countries = <<>>
    /\ weight = <<>>
    /\ bars = <<>>
    /\ HeatBlank
    /\ SlidesBlank
    /\ PagesBlank

NextResize ==
    \/ DashboardLoaded
    \/ \E prop \in {Key(Columns[j]) : j \in DOMAIN Columns} : PropertyChange(prop)
    \/ \E numVal \in NumSelectOptions : NumChange(numVal)
    \/ ContinentChange
    \/ Resize
    \/ Tick
    \/ Later

SpecResize == InitResize /\ [][NextResize]_vars

\* The ranking widget page before drawIndexWidget, which may be built with
\* any subset of the categories as its GROUPS
InitCats ==
    /\ \E cells \in SmallTables, same \in CellTexts :
          csv = DatasetOf(SmallCells(cells, same))
    /\ gridRows = <<>>
    /\ scales = <<>>
    /\ tooltip = NoTooltip
    /\ mapData = <<>>
    /\ oecdAvg = <<>>
    /\ countries = <<>>
    /\ weight = <<>>
    /\ bars = <<>>
    /\ HeatBlank
    /\ SlidesBlank
    /\ PagesBlank

NextCats ==
    \/ \E cats \in SUBSET Groups : DrawIndexWidgetFor(cats)
    \/ \E grp \in Groups, value \in SliderPositions : SliderInput(grp, value)

SpecCats == InitCats /\ [][NextCats]_vars

\* The rows of a file with any of the row names, classified one by one
InitRegion ==
    /\ csv = NoFile
    /\ gridRows = <<>>
    /\ scales = <<>>
    /\ tooltip = NoTooltip
    /\ mapData = <<>>
    /\ oecdAvg = <<>>
    /\ countries = <<>>
    /\ weight = <<>>
    /\ bars = <<>>
    /\ HeatBlank
    /\ SlidesBlank
    /\ PagesBlank

NextRegion == \E view \in {"scatter", "dashboard"}, name \in RowNames : ClassifyRow(view, name)

SpecRegion == InitRegion /\ [][NextRegion]_vars

\* what the stored item can hold when a page opens: nothing, a country of
\* the file, or a name the file has no row for
Elsewhere == "Greenland"
StoredItems == {NoCountry, Elsewhere} \cup Range(CountryNames)

\* The story page with grid and map not yet drawn and the dashboard page not
\* yet loaded, both reading the same file and the same localStorage
InitSelect ==
    /\ csv = SampleFile
    /\ gridRows = <<>>
    /\ scales = <<>>
    /\ tooltip = NoTooltip
    /\ mapData = <<>>
    /\ oecdAvg = <<>>
    /\ countries = <<>>
    /\ weight = <<>>
    /\ bars = <<>>
    /\ HeatBlank
    /\ SlidesBlank
    /\ RegionsBlank
    /\ StoryBlank
    /\ ChartBlank
    /\ stored \in StoredItems
    /\ WidgetsBlank

NextSelect ==
    \/ RenderCountryGrid
    \/ DrawMap
    \/ DashboardLoaded
    \/ \E i \in 1..NumCountries : GridBoxClick(i)
    \/ \E csvName \in Range(CountryNames) \cup {Elsewhere} : MapClick(csvName)
    \/ \E value \in Range(CountryNames) : CountrySelectChange(value)

SpecSelect == InitSelect /\ [][NextSelect]_vars

\* The country grid once renderCountryGrid has returned
InitGrid ==
    /\ csv = NoFile
    /\ \E cells \in CellTables : gridRows = GridRows(DatasetOf(cells))
    /\ scales = [cat \in Groups |-> GridScaleDomain(gridRows, cat)]
    /\ tooltip = NoTooltip
    /\ mapData = <<>>
    /\ oecdAvg = <<>>
    /\ countries = <<>>
    /\ weight = <<>>
    /\ bars = <<>>
    /\ HeatBlank
    /\ SlidesBlank
    /\ PagesBlank

NextGrid == \E i \in 1..NumCountries : GridMouseover(i)

SpecGrid == InitGrid /\ [][NextGrid]_vars

\* The ranking widget once drawIndexWidget has returned
Init ==
    /\ csv = NoFile
    /\ \E cells \in CellTables :
          countries = UpdateRanking(WidgetCountries(DatasetOf(cells)), ZeroWeights)
    /\ weight = ZeroWeights
    /\ bars = BarsOf(countries)
    /\ gridRows = <<>>
    /\ scales = <<>>
    /\ tooltip = NoTooltip
    /\ mapData = <<>>
    /\ oecdAvg = <<>>
    /\ HeatBlank
    /\ SlidesBlank
    /\ PagesBlank

Next == \E grp \in Groups, value \in SliderPositions : SliderInput(grp, value)

Spec == Init /\ [][Next]_vars

\* The ranking widget with the file it was drawn from kept beside it
InitRank ==
    /\ \E cells \in CellTables : csv = DatasetOf(cells)
    /\ countries = UpdateRanking(WidgetCountries(csv), ZeroWeights)
    /\ weight = ZeroWeights
    /\ bars = BarsOf(countries)
    /\ gridRows = <<>>
    /\ scales = <<>>
    /\ tooltip = NoTooltip
    /\ mapData = <<>>
    /\ oecdAvg = <<>>
    /\ HeatBlank
    /\ SlidesBlank
    /\ PagesBlank

SliderInputRank(grp, value) ==
    /\ SliderInput(grp, value)
    /\ csv' = csv

NextRank == \E grp \in Groups, value \in SliderPositions : SliderInputRank(grp, value)

SpecRank == InitRank /\ [][NextRank]_vars

----------------------------------------------------------------------------
(* Vocabulary of the properties *)

RowOf(name) == CHOOSE i \in DOMAIN CountryNames : CountryNames[i] = name

\* the text of one cell of the file
CellOf(file, i, name) ==
    file.rows[i].cells[CHOOSE j \in DOMAIN file.header : file.header[j] = Key(name)]

\* every member indicator of the category is an empty cell in row i
AllMissing(file, i, cat) ==
    \A k \in DOMAIN GROUPS[cat] : CellOf(file, i, GROUPS[cat][k]) = EmptyCell

RowsWithData(file, cat) ==
    SelectSeq([i \in 1..NumCountries |-> i], LAMBDA i : ~AllMissing(file, i, cat))

\* the widget's entry of the country of row i
EntryOf(list, i) == list[CHOOSE k \in DOMAIN list : list[k].Country = CountryNames[i]]

\* the widget's entries put back in file order
InRowOrder(list) == [i \in DOMAIN list |-> EntryOf(list, i)]

OrderOf(list) == [i \in DOMAIN list |-> list[i].Country]

AllZero(w) == \A g \in Groups : w[g] = 0
OnlyPositive(w, g) == w[g] > 0 /\ \A h \in Groups \ {g} : w[h] = 0

\* the ranking by one category's score alone: every country scored by that
\* category, the list stably sorted by it
RankByCategory(list, g) ==
    SortCountries([i \in DOMAIN list |->
                      [list[i] EXCEPT !.composite = OrZero(list[i].scores[g]).q]])

----------------------------------------------------------------------------
\* C1: a country whose member indicators of a category are all missing has a
\* null category mean in every view, is left out of the category's scale
\* extent, and does not contribute to the category's OECD average.
C1_MissingDataExcluded ==
    \A i \in 1..NumCountries, cat \in Groups :
        (csv # NoFile /\ AllMissing(csv, i, cat)) =>
            /\ gridRows # <<>> =>
                  /\ gridRows[i]._groupAvg[cat] = Null
                  /\ scales[cat] =
                        D3Extent([k \in DOMAIN RowsWithData(csv, cat) |->
                                    gridRows[RowsWithData(csv, cat)[k]]._groupAvg[cat]])
            /\ mapData # <<>> =>
                  /\ mapData[i].groupAvg[cat] = Null
                  /\ RowsWithData(csv, cat) # <<>> =>
                        oecdAvg[cat] =
                            D3Mean([k \in DOMAIN RowsWithData(csv, cat) |->
                                      mapData[RowsWithData(csv, cat)[k]].groupAvg[cat]])
            /\ countries # <<>> => EntryOf(countries, i).scores[cat] = Null

----------------------------------------------------------------------------
\* a category is defined for row i when at least one member indicator is there
Defined(file, i, g) == ~AllMissing(file, i, g)

\* the weighted mean of the entry's scores over the categories of cats
WeightedMean(entry, useWeights, cats) ==
    LET keys == SelectSeq(GroupNames, LAMBDA g : g \in cats)
        sumW == SumSeq([k \in DOMAIN keys |-> Int2Rat(useWeights[keys[k]])])
        s    == SumSeq([k \in DOMAIN keys |->
                          RMul(entry.scores[keys[k]].q, Int2Rat(useWeights[keys[k]]))])
    IN  RDiv(s, sumW)

\* C2: the composite score of a country is the weighted mean over only the
\* categories for which the country has data: a category without data is in
\* neither the numerator nor the denominator.
C2_CompositeOverDefinedOnly ==
    \A i \in 1..NumCountries :
        LET useWeights == UseWeights(weight)
            cats == {g \in DOMAIN useWeights : Defined(csv, i, g)}
        IN  (\E g \in cats : useWeights[g] > 0) =>
                EntryOf(countries, i).composite =
                    WeightedMean(EntryOf(countries, i), useWeights, cats)

\* the 1-10 score of the category mean of row i, by min/max normalization
\* across the countries
NormalizedScore(file, i, g) ==
    LET rows == GridRows(file)
    IN  GridRating(GridScaleDomain(rows, g), rows[i]._groupAvg[g])

\* C3: every per-category score that enters the composite is the score
\* normalized to the 1-10 scale.
C3_ScoresAreNormalized ==
    \A i \in 1..NumCountries, g \in DOMAIN UseWeights(weight) :
        Defined(csv, i, g) =>
            /\ EntryOf(countries, i).scores[g] = Num(NormalizedScore(csv, i, g))
            /\ RLe(<<RatingLo, 1>>, EntryOf(countries, i).scores[g].q)
            /\ RLe(EntryOf(countries, i).scores[g].q, <<RatingHi, 1>>)

C5_TiesInFileOrder ==
    \A i, j \in DOMAIN countries :
        (i < j /\ countries[i].composite = countries[j].composite) =>
            RowOf(countries[i].Country) < RowOf(countries[j].Country)

\* C6: the ranked list is a function of the dataset and the current weights:
\* it is what a recomputation from the rows in file order gives.
C6_RankingIsPure ==
    countries = UpdateRanking(InRowOrder(countries), weight)

\* C7: the ranked list holds every loaded country exactly once and is in
\* non-increasing order of composite score.
C7_FullListDescending ==
    /\ Len(countries) = NumCountries
    /\ \A n \in Range(CountryNames) :
          Cardinality({k \in DOMAIN countries : countries[k].Country = n}) = 1
    /\ \A i, j \in DOMAIN countries :
          i < j => RLe(countries[j].composite, countries[i].composite)

\* C7 witness: a recomputation with some weight set has moved a later row
\* ahead of an earlier one
C7_Witness ==
    /\ ~AllZero(weight)
    /\ \E i, j \in DOMAIN countries :
          /\ i < j
          /\ RowOf(countries[i].Country) > RowOf(countries[j].Country)
          /\ RLt(countries[j].composite, countries[i].composite)

ScaleWeights(w, k) == [g \in Groups |-> k * w[g]]

C10_RatingWithinRange ==
    /\ \A i \in DOMAIN gridRows, cat \in Groups :
          ~IsNullish(gridRows[i]._groupAvg[cat]) =>
              /\ RLe(<<1, 1>>, GridRating(scales[cat], gridRows[i]._groupAvg[cat]))
              /\ RLe(GridRating(scales[cat], gridRows[i]._groupAvg[cat]), <<10, 1>>)
    /\ \A cat \in DOMAIN tooltip.ratings :
          RLe(<<1, 1>>, tooltip.ratings[cat]) /\ RLe(tooltip.ratings[cat], <<10, 1>>)

\* C10 witness: the hovered country is rated strictly inside the range on a
\* scale whose domain is not degenerate, beside a rating at each end
C10_Witness ==
    \E cat \in DOMAIN tooltip.ratings :
        /\ scales[cat][1] # scales[cat][2]
        /\ RLt(<<1, 1>>, tooltip.ratings[cat])
        /\ RLt(tooltip.ratings[cat], <<10, 1>>)
        /\ \E i, j \in DOMAIN gridRows :
              /\ ~IsNullish(gridRows[i]._groupAvg[cat])
              /\ ~IsNullish(gridRows[j]._groupAvg[cat])
              /\ GridRating(scales[cat], gridRows[i]._groupAvg[cat]) = <<1, 1>>
              /\ GridRating(scales[cat], gridRows[j]._groupAvg[cat]) = <<10, 1>>

\* the domain [lo - 1, hi + 1]
Widened(dom) == <<Num(RSub(dom[1].q, <<1, 1>>)), Num(RAdd(dom[2].q, <<1, 1>>))>>

\* the midpoint of [lo, hi]
Midpoint(lo, hi) == RDiv(Int2Rat(lo + hi), <<2, 1>>)

\* C11: when every valid mean of a category is the same number, every
\* country with a mean is scored the midpoint of the target range (5.5 on
\* the grid's 1-10 scale, as the domain widened by 1 on each side gives;
\* 5 on the radar's 0-10 scale), and nothing is divided by zero.
C11_DegenerateRangeMidpoint ==
    \A cat \in Groups :
        (scales[cat][1].k = "number" /\ scales[cat][1] = scales[cat][2]) =>
            /\ \A i \in DOMAIN gridRows :
                  ~IsNullish(gridRows[i]._groupAvg[cat]) =>
                      /\ GridRating(scales[cat], gridRows[i]._groupAvg[cat])
                            = Midpoint(RatingLo, RatingHi)
                      /\ GridRating(scales[cat], gridRows[i]._groupAvg[cat])
                            = GridRating(Widened(scales[cat]), gridRows[i]._groupAvg[cat])
            /\ cat \in DOMAIN tooltip.ratings =>
                  tooltip.ratings[cat] = Midpoint(RatingLo, RatingHi)
            /\ RadarNormalizeScale(scales[cat][1].q, scales[cat][2].q, scales[cat][1].q)
                  = Midpoint(RadarLo, RadarHi)

\* C11 witness: the tooltip rates the hovered country on a category in which
\* all three countries have the same mean
C11_Witness ==
    \E cat \in DOMAIN tooltip.ratings :
        /\ scales[cat][1] = scales[cat][2]
        /\ \A i \in DOMAIN gridRows : ~IsNullish(gridRows[i]._groupAvg[cat])
        /\ tooltip.ratings[cat] = <<11, 2>>

\* C12: within a category a country with a larger mean is never rated lower.
C12_RatingMonotone ==
    \A cat \in Groups, i \in DOMAIN gridRows, j \in DOMAIN gridRows :
        ( /\ ~IsNullish(gridRows[i]._groupAvg[cat])
          /\ ~IsNullish(gridRows[j]._groupAvg[cat])
          /\ RLt(gridRows[j]._groupAvg[cat].q, gridRows[i]._groupAvg[cat].q) ) =>
            /\ RLe(GridRating(scales[cat], gridRows[j]._groupAvg[cat]),
                   GridRating(scales[cat], gridRows[i]._groupAvg[cat]))
            /\ (tooltip.Country = gridRows[i].Country) =>
                  RLe(GridRating(scales[cat], gridRows[j]._groupAvg[cat]),
                      tooltip.ratings[cat])

\* C12 witness: the hovered country has a larger mean than two others whose
\* means differ, and the three ratings rise with the means
C12_Witness ==
    \E cat \in DOMAIN tooltip.ratings, i, j, k \in DOMAIN gridRows :
        /\ tooltip.Country = gridRows[i].Country
        /\ ~IsNullish(gridRows[j]._groupAvg[cat])
        /\ ~IsNullish(gridRows[k]._groupAvg[cat])
        /\ RLt(gridRows[k]._groupAvg[cat].q, gridRows[j]._groupAvg[cat].q)
        /\ RLt(gridRows[j]._groupAvg[cat].q, gridRows[i]._groupAvg[cat].q)
        /\ RLt(GridRating(scales[cat], gridRows[k]._groupAvg[cat]),
               GridRating(scales[cat], gridRows[j]._groupAvg[cat]))
        /\ RLt(GridRating(scales[cat], gridRows[j]._groupAvg[cat]), tooltip.ratings[cat])

----------------------------------------------------------------------------
(* Correlation as specified: over the countries with both values present *)

\* the column of the loaded file that the heatmap's column c was read from
FileColumn(file, c) == HeatColumn(ParseCsvAutoType(file), c)

\* the rows in which both columns hold a number
PairedRows(a, b) == {i \in DOMAIN a : a[i].k = "number" /\ b[i].k = "number"}

\* the cells of column a in the rows of b that hold a number, in row order
PairedValues(a, b) ==
    LET idx == SelectSeq([i \in DOMAIN a |-> i], LAMBDA i : i \in PairedRows(a, b))
    IN  [k \in DOMAIN idx |-> a[idx[k]]]

\* all numbers of the sequence are equal (or there is none)
IsConstant(vals) == \A i, j \in DOMAIN vals : vals[i] = vals[j]

\* the value the specification reserves for an undefined correlation
CorrNull == [k |-> "null", sign |-> 0, sq |-> <<0, 1>>]

\* the correlation over the pairwise-complete rows: null for fewer than two
\* pairs or a constant column, else the sample correlation of the pairs
PairwiseCorrelation(a, b) ==
    LET pa == PairedValues(a, b)
        pb == PairedValues(b, a)
    IN  IF Len(pa) < 2 \/ IsConstant(pa) \/ IsConstant(pb) THEN CorrNull
        ELSE ComputeCorrelation(pa, pb)

\* C13: the correlation of a pair of columns is null when either column is
\* constant over the paired countries or fewer than two countries are
\* paired; it is not NaN and not 0.
C13_UndefinedCorrelationIsNull ==
    \A p \in DOMAIN matrix :
        LET a == FileColumn(csv, heatCols[p[1]])
            b == FileColumn(csv, heatCols[p[2]])
        IN  (Cardinality(PairedRows(a, b)) < 2
                \/ IsConstant(PairedValues(a, b)) \/ IsConstant(PairedValues(b, a)))
            => matrix[p] = CorrNull

\* C14: each cell of the matrix is the correlation over exactly the
\* countries in which both columns hold a value, wherever that is defined.
C14_PairwiseComplete ==
    \A p \in DOMAIN matrix :
        LET a == FileColumn(csv, heatCols[p[1]])
            b == FileColumn(csv, heatCols[p[2]])
        IN  PairwiseCorrelation(a, b) # CorrNull
            => matrix[p] = PairwiseCorrelation(a, b)

----------------------------------------------------------------------------
(* Headers *)

\* the file with every header name trimmed
TrimmedFile(file) ==
    [file EXCEPT !.header = [j \in DOMAIN file.header |-> Trim(file.header[j])]]

\* the file has a header that is not trimmed
HasPaddedHeader(file) == \E j \in DOMAIN file.header : file.header[j][1] # 0

\* C16: a column whose header carries spaces is found by every view: the
\* grid, the map and the ranking widget compute from a file what they
\* compute from the same file with trimmed headers.
C16_PaddedHeaderFound ==
    /\ gridRows # <<>> => gridRows = GridRows(TrimmedFile(csv))
    /\ mapData # <<>> => mapData = MapData(TrimmedFile(csv))
    /\ countries # <<>> =>
          countries = UpdateRanking(WidgetCountries(TrimmedFile(csv)), ZeroWeights)

\* the category names an indicator that no header of the file carries
Misconfigured(file, g) ==
    \E k \in DOMAIN GROUPS[g] :
        Key(GROUPS[g][k]) \notin {Trim(file.header[j]) : j \in DOMAIN file.header}

\* the file without the columns of the category's indicators
WithoutCategory(file, g) ==
    LET keep == SelectSeq([j \in DOMAIN file.header |-> j],
                          LAMBDA j : file.header[j][2] \notin Range(GROUPS[g]))
    IN  [header |-> [k \in DOMAIN keep |-> file.header[keep[k]]],
         rows   |-> [i \in DOMAIN file.rows |->
                        [Country |-> file.rows[i].Country,
                         cells   |-> [k \in DOMAIN keep |->
                                         file.rows[i].cells[keep[k]]]]]]

\* C19: with trimmed headers, a category that names an absent column has no
\* valid value for any country (a null mean on the grid, the empty-mean
\* score 0 in the widget), and every other category is scored as it is
\* from the file without that category's columns.
C19_AbsentColumnSkipsCategory ==
    ~HasPaddedHeader(csv) =>
        \A g \in Groups : Misconfigured(csv, g) =>
            /\ gridRows # <<>> =>
                  \A i \in DOMAIN gridRows :
                      /\ gridRows[i]._groupAvg[g] = Null
                      /\ \A h \in Groups \ {g} :
                            gridRows[i]._groupAvg[h]
                              = GridRows(WithoutCategory(csv, g))[i]._groupAvg[h]
            /\ countries # <<>> =>
                  \A i \in DOMAIN countries :
                      /\ EntryOf(countries, i).scores[g] = Num(<<0, 1>>)
                      /\ \A h \in Groups \ {g} :
                            EntryOf(countries, i).scores[h]
                              = WidgetCountries(WithoutCategory(csv, g))[i].scores[h]

----------------------------------------------------------------------------
(* Loading *)

\* C17: no drawMap call starts while an earlier one on the container still
\* awaits its data, and the container holds at most one map.
C17_OneMapDrawAtATime ==
    /\ pending["map"] <= 1
    /\ svgs["map"] <= 1

\* the view's last load ended without data: rejected, or an empty file
LoadedNothing(v) ==
    /\ pending[v] = 0
    /\ \/ settled[v] = "rejected"
       \/ settled[v] = "fulfilled" /\ csv = EmptyFile

\* C18: a view whose load failed or brought an empty file holds no partial
\* chart (no svg, no controls) and none of its drawing code has run.
C18_NoDataNoChart ==
    \A v \in Views : LoadedNothing(v) => svgs[v] = 0 /\ ~drawn[v]

----------------------------------------------------------------------------
(* Regions *)

\* the regions that hold real countries
GeoRegions == {"Europe", "Americas", "Asia", "Oceania", "Africa"}

\* C21: no aggregate row is given a region of real countries, by either
\* regionOf.
C21_AggregatesKeptApart ==
    \A view \in DOMAIN regions : \A name \in DOMAIN regions[view] :
        name \in AggregateRows => regions[view][name] \notin GeoRegions

----------------------------------------------------------------------------
(* The selected country, shared through localStorage *)

\* C22: every widget in the page that shows the selected or home country --
\* the map's home box once it shows a country, the dashboard's drop-down
\* and the country its charts highlight -- shows the country that is stored
\* under "bli-selected-country".
C22_SelectionShared ==
    /\ homeBox \notin {NoBox, NoCountry} => homeBox = stored
    /\ countrySelect # NoBox =>
          countrySelect = stored /\ scatterPlotMasterCountry = stored

\* C26: a click on a country of the map that already has a home country
\* leaves the home country, the home box and the stored item as they were.
C26_HomeCountryIsKept ==
    [][(homeRec # NoCountry /\ \E csvName \in Range(CountryNames) \cup {Elsewhere} :
                                  MapClick(csvName))
        => (homeRec' = homeRec /\ homeBox' = homeBox /\ stored' = stored)]_vars

\* a map whose home country was set by a click or restored, after a later
\* click has put another country into the comparison box
C26_Witness ==
    /\ homeRec # NoCountry
    /\ homeBox = homeRec
    /\ selBox \notin {NoBox, NoCountry, homeRec}

\* C27: when the dashboard has loaded, the stored item names the country
\* its drop-down shows as selected.
C27_LoadedSelectionIsStored ==
    [][DashboardLoaded => stored' = countrySelect']_vars

----------------------------------------------------------------------------
(* Navigation of the carousel *)

\* C23: no step takes the carousel from the "Where are you from?" slide to
\* a later slide before a country box has been clicked (the click that
\* dispatches "countrySelected").
C23_NoAdvanceBeforeSelection ==
    [][(current = GridSlide /\ current' > GridSlide) => gridSelected # NoCountry]_vars

\* C24: the index of the active slide is in range, the slide at that index
\* is the only one with the class "active", its dot is the only active dot
\* and exactly the dots before it are visited.
C24_ProgressMatchesCurrent ==
    /\ current \in 0..(NumSlides - 1)
    /\ slideActive = {current}
    /\ \A i \in 0..(NumSlides - 1) :
          /\ dotClass[i] = "active" <=> i = current
          /\ dotClass[i] = "visited" <=> i < current

\* the carousel after it has gone forward and then back by a dot: dots that
\* were visited or active are now after the active one
C24_Witness ==
    /\ current = 2
    /\ svgs["map"] > 0
    /\ dotClass[1] = "visited"
    /\ dotClass[4] = ""

----------------------------------------------------------------------------
(* The carousel of main.ts and the story dots of the dashboard *)

\* the view a slide of main.ts holds
TsSlideOf(v) == IF v = "map" THEN TsMapSlide ELSE TsScatterSlide

\* C25: while the map slide or the scatter slide of main.ts is the active
\* slide, a draw call of its chart has been made: it is pending, has put
\* its svg into the slide, or has ended.
C25_ActiveChartStarted ==
    \A v \in {"map", "scatter"} :
        (location = "index.html" /\ slideActive = {TsSlideOf(v)})
            => (pending[v] > 0 \/ svgs[v] > 0 \/ settled[v] # "none")

\* C29: a click on story dot i of the dashboard opens the story with slide
\* i active.
C29_DotOpensItsSlide ==
    [][\A slideIndex \in 0..5 :
          ProgressDotClick(slideIndex) => (current' = slideIndex /\ slideActive' = {slideIndex})]_vars

----------------------------------------------------------------------------
(* The bar chart of the dashboard *)

\* the rows of the file that have a number in the chart's column
NumericRows ==
    LET wide == ParseCsvAutoType(csv)
    IN  SelectSeq(wide, LAMBDA d : Prop(d.cols, barChart.prop).k = "number")

\* the bars are in non-increasing order of value
NonIncreasing(entries) ==
    \A i, j \in DOMAIN entries : i < j => RLe(entries[j].value.q, entries[i].value.q)

\* C28: in country mode with "Top N" the chart has min(N, countries with a
\* number) bars, each a different country of the file with its own number,
\* in non-increasing order, and no country left out has a higher number
\* than one shown; in continent mode, whatever N, the bars are exactly the
\* regions of the rows that have a number, one each.
C28_TopNBars ==
    (csv # NoFile /\ countrySelect # NoBox) =>
        LET entries == barChart.entries
            rows == NumericRows
            shown == {entries[i].key : i \in DOMAIN entries}
        IN  /\ Cardinality(shown) = Len(entries)
            /\ NonIncreasing(entries)
            /\ (~barChart.continentMode /\ StartsWithTop(barChart.numVal)) =>
                  /\ Len(entries) = IF TopCount(barChart.numVal) < Len(rows)
                                    THEN TopCount(barChart.numVal) ELSE Len(rows)
                  /\ \A i \in DOMAIN entries : \E r \in DOMAIN rows :
                        /\ rows[r].Country = entries[i].key
                        /\ Prop(rows[r].cols, barChart.prop) = entries[i].value
                  /\ \A r \in DOMAIN rows : rows[r].Country \notin shown =>
                        \A i \in DOMAIN entries :
                            RLe(Prop(rows[r].cols, barChart.prop).q, entries[i].value.q)
            /\ barChart.continentMode =>
                  shown = {DashRegionOf(rows[r].Country) : r \in DOMAIN rows}

\* "Top 3" in country mode over four rows with a number and one without,
\* the bars not all of one height
C28_Witness ==
    /\ csv # NoFile /\ countrySelect # NoBox
    /\ ~barChart.continentMode
    /\ barChart.numVal = "Top 3"
    /\ Len(NumericRows) = 4
    /\ Len(barChart.entries) = 3
    /\ barChart.entries[1].value # barChart.entries[3].value

----------------------------------------------------------------------------
(* The debounced resize listener *)

\* C30: the debounced re-render runs only when the wait of 250 ms has
\* passed since the last resize event; while the timer of a burst is
\* pending the burst has had no re-render, and once it is not the burst has
\* had exactly one, which is so whenever more than the wait has passed
\* since the last event.
C30_OneRenderAfterQuiet ==
    /\ [][Later => sinceResize = Wait]_vars
    /\ [](timeout # NoTimer => renders = 0)
    /\ []((timeout = NoTimer /\ burst > 0) => renders = 1)
    /\ [](sinceResize > Wait => (timeout = NoTimer /\ renders = 1))

\* a burst of several resize events, over, with its one re-render done
C30_Witness ==
    /\ burst >= 2
    /\ timeout = NoTimer
    /\ renders = 1
    /\ sinceResize >= Wait
====
